---- MODULE Spec2Model ----
(***************************************************************************)
(* Model of src/tic_tac_toe.py: the TicTacToe object (board, turn marker,  *)
(* configuration), its move strategies (random_move, medium_move,          *)
(* hard_move / minimax with the alpha-beta cutoff) and the play_game loop. *)
(*                                                                         *)
(* The strategies probe hypothetical moves by writing self.board and       *)
(* restoring the cell afterwards.  The operators below thread the board    *)
(* through every call and return it together with the result, so that the  *)
(* restore is something the model computes and not something it assumes.   *)
(***************************************************************************)
EXTENDS Integers, Sequences, FiniteSets, TLC

\* sys.maxsize.  Scores lie in -10..10, so the value only has to lie beyond
\* them; TLC integers are 32 bits wide, hence the largest 32-bit integer.
maxsize == 2147483647

\* The numbers the human types range over 0..MaxInput; 1..3 name a row or column.
MaxInput == 4

InputRange == 0..MaxInput

Symbols == {"X", "O"}

Difficulties == {"easy", "medium", "hard", "impossible"}

max(a, b) == IF a >= b THEN a ELSE b

min(a, b) == IF a <= b THEN a ELSE b

Other(s) == IF s = "X" THEN "O" ELSE "X"

\* self.board after __init__
EmptyBoard == [r \in 0..2 |-> [c \in 0..2 |-> " "]]

VARIABLES
  board,           \* self.board
  current_player,  \* self.current_player
  play_with_npc,   \* self.play_with_npc
  difficulty,      \* self.difficulty
  player_symbol,   \* self.player_symbol
  npc_symbol,      \* self.npc_symbol
  running,         \* TRUE while the loop of play_game has not left by break
  attempt,         \* what the last iteration of the loop of play_game did
  optimal,         \* self-play driver: the symbols whose moves hard_move chooses
  fromStart,       \* self-play driver: optimal was fixed before the first move
  choice,          \* self-play driver: the cell hard_move returned, not yet placed
  promised,        \* self-play driver: the symbols hard_move was called for on a
                   \* board from which that symbol can force a win
  score,           \* self-play driver: best_score of the hard_move call that
                   \* returned choice
  outcome,         \* the outcome the code of play_game computes for board
  lock,            \* self.lock: the thread that holds it, NoThread when free
  callers,         \* per external thread: its position in make_move
  tally,           \* per cell: the writes of line 45 and the returns of line 46
  search,          \* the thread that runs find_best_move: its position and locals
  reader           \* the thread that runs draw_board: its position and the rows
                   \* it has printed

\* the variables of the threads around one instance
threads == <<lock, callers, tally, search, reader>>

vars == <<board, current_player, play_with_npc, difficulty, player_symbol,
          npc_symbol, running, attempt, optimal, fromStart, choice, promised,
          score, outcome, threads>>

\* no thread: self.lock is free
NoThread == 0

\* the value of outcome before the code has judged the board
Unjudged == <<"unjudged">>

\* the values of score, outcome and of the threads' variables in a game that
\* a single thread plays
NoThreads ==
  /\ lock = NoThread
  /\ callers = <<>>
  /\ tally = <<>>
  /\ search = [pc |-> "idle"]
  /\ reader = [pc |-> "idle"]

(***************************************************************************)
(* Board queries                                                           *)
(***************************************************************************)

\* the list "lines" of check_winner: rows, then columns, then the diagonals
lines(b) ==
  << <<b[0][0], b[0][1], b[0][2]>>,
     <<b[1][0], b[1][1], b[1][2]>>,
     <<b[2][0], b[2][1], b[2][2]>>,
     <<b[0][0], b[1][0], b[2][0]>>,
     <<b[0][1], b[1][1], b[2][1]>>,
     <<b[0][2], b[1][2], b[2][2]>>,
     <<b[0][0], b[1][1], b[2][2]>>,
     <<b[0][2], b[1][1], b[2][0]>> >>

\* line_complete without the test line[0] != " "
line_complete_blank(x, y, z) == y = x /\ z = x

\* line.count(line[0]) == 3 and line[0] != " " for the line <<x, y, z>>: a
\* line has three entries, so the count is 3 exactly when y and z equal x
line_complete(x, y, z) == y = x /\ z = x /\ x # " "

\* the None check_winner returns in place of a symbol
NoWinner == "None"

\* the for loop of check_winner over the eight entries of lines(b), in order
check_winner(b) ==
  IF line_complete(b[0][0], b[0][1], b[0][2]) THEN b[0][0]
  ELSE IF line_complete(b[1][0], b[1][1], b[1][2]) THEN b[1][0]
  ELSE IF line_complete(b[2][0], b[2][1], b[2][2]) THEN b[2][0]
  ELSE IF line_complete(b[0][0], b[1][0], b[2][0]) THEN b[0][0]
  ELSE IF line_complete(b[0][1], b[1][1], b[2][1]) THEN b[0][1]
  ELSE IF line_complete(b[0][2], b[1][2], b[2][2]) THEN b[0][2]
  ELSE IF line_complete(b[0][0], b[1][1], b[2][2]) THEN b[0][0]
  ELSE IF line_complete(b[0][2], b[1][1], b[2][0]) THEN b[0][2]
  ELSE NoWinner

is_full(b) == \A r \in 0..2 : \A c \in 0..2 : b[r][c] # " "

Cells == (0..2) \X (0..2)

\* the number of cells of b that hold s
Count(b, s) == Cardinality({m \in Cells : b[m[1]][m[2]] = s})

(***************************************************************************)
(* Mutation of the board and of the turn marker                            *)
(***************************************************************************)

\* make_move without the write of line 45
make_move_no_write(b, player, row, col) ==
  IF ~(0 <= row /\ row < 3 /\ 0 <= col /\ col < 3)
  THEN [raised |-> "InvalidMoveError", message |-> "Row or column is out of bounds", board |-> b]
  ELSE IF b[row][col] # " "
  THEN [raised |-> "InvalidMoveError", message |-> "Spot is already taken", board |-> b]
  ELSE [raised |-> "none", message |-> "", board |-> b]

\* make_move with the write moved in front of the emptiness check
make_move_write_first(b, player, row, col) ==
  IF ~(0 <= row /\ row < 3 /\ 0 <= col /\ col < 3)
  THEN [raised |-> "InvalidMoveError", message |-> "Row or column is out of bounds", board |-> b]
  ELSE IF b[row][col] # " "
  THEN [raised |-> "InvalidMoveError", message |-> "Spot is already taken",
        board |-> [b EXCEPT ![row][col] = player]]
  ELSE [raised |-> "none", message |-> "", board |-> [b EXCEPT ![row][col] = player]]

\* make_move(row, col) with self.board = b and self.current_player = player:
\* the exception raised ("none" when it returns True) and the board left behind
make_move(b, player, row, col) ==
  IF ~(0 <= row /\ row < 3 /\ 0 <= col /\ col < 3)
  THEN [raised |-> "InvalidMoveError", message |-> "Row or column is out of bounds", board |-> b]
  ELSE IF b[row][col] # " "
  THEN [raised |-> "InvalidMoveError", message |-> "Spot is already taken", board |-> b]
  ELSE [raised |-> "none", message |-> "", board |-> [b EXCEPT ![row][col] = player]]

\* switch_player comparing with npc_symbol in place of player_symbol
switch_player_same(player, pl, npc) == IF player = npc THEN npc ELSE pl

\* the value switch_player assigns to self.current_player
switch_player(player, pl, npc) == IF player = pl THEN npc ELSE pl

(***************************************************************************)
(* Strategies.  A strategy call yields [move, board]: the cell it returns  *)
(* (<<>> for None) and self.board as the call leaves it.  A strategy that  *)
(* draws from random.choice is the set of the results it can produce.      *)
(***************************************************************************)

\* the None a strategy returns in place of a cell
None == <<>>

\* the list available_moves of random_move
available_moves(b) == {<<r, c>> \in (0..2) \X (0..2) : b[r][c] = " "}

\* random_move choosing among all nine cells
random_move_any_cell(b) == {[move |-> m, board |-> b] : m \in (0..2) \X (0..2)}

\* random.choice(available_moves); no result (IndexError) when the list is empty
random_move(b) == {[move |-> m, board |-> b] : m \in available_moves(b)}

RECURSIVE find_loop(_, _, _, _)
\* the two for loops of find_best_move from cell (row, col) on
find_loop(b, symbol, row, col) ==
  IF row = 3 THEN [move |-> None, board |-> b]
  ELSE IF col = 3 THEN find_loop(b, symbol, row + 1, 0)
  ELSE IF b[row][col] = " "
  THEN LET probed == [b EXCEPT ![row][col] = symbol]
           restored == [probed EXCEPT ![row][col] = " "]
       IN IF check_winner(probed) = symbol
          THEN [move |-> <<row, col>>, board |-> restored]
          ELSE find_loop(restored, symbol, row, col + 1)
  ELSE find_loop(b, symbol, row, col + 1)

find_best_move(b, symbol) == find_loop(b, symbol, 0, 0)

corners == {<<0, 0>>, <<0, 2>>, <<2, 0>>, <<2, 2>>}

sides == {<<0, 1>>, <<1, 0>>, <<1, 2>>, <<2, 1>>}

\* medium_move with the blocking scan in front of the winning scan
medium_move_block_first(b, npc, pl) ==
  LET block == find_best_move(b, pl)
      win == find_best_move(block.board, npc)
      b2 == win.board
      available_corners == {m \in corners : b2[m[1]][m[2]] = " "}
      available_sides == {m \in sides : b2[m[1]][m[2]] = " "}
  IN IF block.move # None THEN {block}
     ELSE IF win.move # None THEN {win}
     ELSE IF b2[1][1] = " " THEN {[move |-> <<1, 1>>, board |-> b2]}
     ELSE IF available_corners # {} THEN {[move |-> m, board |-> b2] : m \in available_corners}
     ELSE IF available_sides # {} THEN {[move |-> m, board |-> b2] : m \in available_sides}
     ELSE random_move(b2)

\* medium_move with the blocking scan run for npc_symbol once more
medium_move_no_block(b, npc, pl) ==
  LET win == find_best_move(b, npc)
      block == find_best_move(win.board, npc)
      b2 == block.board
      available_corners == {m \in corners : b2[m[1]][m[2]] = " "}
      available_sides == {m \in sides : b2[m[1]][m[2]] = " "}
  IN IF win.move # None THEN {win}
     ELSE IF block.move # None THEN {block}
     ELSE IF b2[1][1] = " " THEN {[move |-> <<1, 1>>, board |-> b2]}
     ELSE IF available_corners # {} THEN {[move |-> m, board |-> b2] : m \in available_corners}
     ELSE IF available_sides # {} THEN {[move |-> m, board |-> b2] : m \in available_sides}
     ELSE random_move(b2)

medium_move(b, npc, pl) ==
  LET win == find_best_move(b, npc)
      block == find_best_move(win.board, pl)
      b2 == block.board
      available_corners == {m \in corners : b2[m[1]][m[2]] = " "}
      available_sides == {m \in sides : b2[m[1]][m[2]] = " "}
  IN IF win.move # None THEN {win}
     ELSE IF block.move # None THEN {block}
     ELSE IF b2[1][1] = " " THEN {[move |-> <<1, 1>>, board |-> b2]}
     ELSE IF available_corners # {} THEN {[move |-> m, board |-> b2] : m \in available_corners}
     ELSE IF available_sides # {} THEN {[move |-> m, board |-> b2] : m \in available_sides}
     ELSE random_move(b2)

(***************************************************************************)
(* minimax.  The two nested for loops are unrolled: a loop state holds the *)
(* locals the loop updates, self.board, and whether the loop over col has  *)
(* been left by break; max_row and min_row give the loop states after the  *)
(* three cells of a row, in the order the loop reaches them.               *)
(***************************************************************************)

RECURSIVE minimax(_, _, _, _, _, _, _)

\* max_cell passing beta and alpha to minimax in the wrong order
max_cell_swapped(s, npc, pl, depth, beta, row, col) ==
  IF s.broke \/ s.board[row][col] # " " THEN s
  ELSE LET r == minimax([s.board EXCEPT ![row][col] = npc], npc, pl, depth + 1, FALSE, beta, s.alpha)
           alpha == max(s.alpha, r[1])
       IN [eval |-> max(s.eval, r[1]),
           alpha |-> alpha,
           board |-> [r[2] EXCEPT ![row][col] = " "],
           broke |-> beta <= alpha]

\* max_cell keeping the smaller score
max_cell_min(s, npc, pl, depth, beta, row, col) ==
  IF s.broke \/ s.board[row][col] # " " THEN s
  ELSE LET r == minimax([s.board EXCEPT ![row][col] = npc], npc, pl, depth + 1, FALSE, s.alpha, beta)
           alpha == max(s.alpha, r[1])
       IN [eval |-> IF s.eval = -maxsize THEN r[1] ELSE min(s.eval, r[1]),
           alpha |-> alpha,
           board |-> [r[2] EXCEPT ![row][col] = " "],
           broke |-> beta <= alpha]

\* the body of the maximizing loop at cell (row, col): lines 147-154
max_cell(s, npc, pl, depth, beta, row, col) ==
  IF s.broke \/ s.board[row][col] # " " THEN s
  ELSE LET r == minimax([s.board EXCEPT ![row][col] = npc], npc, pl, depth + 1, FALSE, s.alpha, beta)
           alpha == max(s.alpha, r[1])
       IN [eval |-> max(s.eval, r[1]),
           alpha |-> alpha,
           board |-> [r[2] EXCEPT ![row][col] = " "],
           broke |-> beta <= alpha]

\* the loop over col of the maximizing branch; the break ends this loop only
max_row(s, npc, pl, depth, beta, row) ==
  LET c0 == max_cell([s EXCEPT !.broke = FALSE], npc, pl, depth, beta, row, 0)
      c1 == max_cell(c0, npc, pl, depth, beta, row, 1)
      c2 == max_cell(c1, npc, pl, depth, beta, row, 2)
  IN <<c0, c1, c2>>

\* the maximizing branch of minimax: lines 144-155
max_loop(b, npc, pl, depth, alpha, beta) ==
  LET start == [eval |-> -maxsize, alpha |-> alpha, board |-> b, broke |-> FALSE]
      r0 == max_row(start, npc, pl, depth, beta, 0)
      r1 == max_row(r0[3], npc, pl, depth, beta, 1)
      r2 == max_row(r1[3], npc, pl, depth, beta, 2)
      end == <<r0, r1, r2>>[3][3]
  IN <<end.eval, end.board>>

\* min_cell without the restore of line 163
min_cell_no_restore(s, npc, pl, depth, alpha, row, col) ==
  IF s.broke \/ s.board[row][col] # " " THEN s
  ELSE LET r == minimax([s.board EXCEPT ![row][col] = pl], npc, pl, depth + 1, TRUE, alpha, s.beta)
           beta == min(s.beta, r[1])
       IN [eval |-> min(s.eval, r[1]),
           beta |-> beta,
           board |-> r[2],
           broke |-> beta <= alpha]

\* the body of the minimizing loop at cell (row, col): lines 160-167
min_cell(s, npc, pl, depth, alpha, row, col) ==
  IF s.broke \/ s.board[row][col] # " " THEN s
  ELSE LET r == minimax([s.board EXCEPT ![row][col] = pl], npc, pl, depth + 1, TRUE, alpha, s.beta)
           beta == min(s.beta, r[1])
       IN [eval |-> min(s.eval, r[1]),
           beta |-> beta,
           board |-> [r[2] EXCEPT ![row][col] = " "],
           broke |-> beta <= alpha]

\* the loop over col of the minimizing branch; the break ends this loop only
min_row(s, npc, pl, depth, alpha, row) ==
  LET c0 == min_cell([s EXCEPT !.broke = FALSE], npc, pl, depth, alpha, row, 0)
      c1 == min_cell(c0, npc, pl, depth, alpha, row, 1)
      c2 == min_cell(c1, npc, pl, depth, alpha, row, 2)
  IN <<c0, c1, c2>>

\* the minimizing branch of minimax: lines 157-168
min_loop(b, npc, pl, depth, alpha, beta) ==
  LET start == [eval |-> maxsize, beta |-> beta, board |-> b, broke |-> FALSE]
      r0 == min_row(start, npc, pl, depth, alpha, 0)
      r1 == min_row(r0[3], npc, pl, depth, alpha, 1)
      r2 == min_row(r1[3], npc, pl, depth, alpha, 2)
      end == <<r0, r1, r2>>[3][3]
  IN <<end.eval, end.board>>

\* minimax scoring a line without regard to depth
minimax_flat(b, npc, pl, depth, is_maximizing, alpha, beta) ==
  LET winner == check_winner(b)
  IN IF winner = npc THEN <<10, b>>
     ELSE IF winner = pl THEN <<-10, b>>
     ELSE IF is_full(b) THEN <<0, b>>
     ELSE IF is_maximizing THEN max_loop(b, npc, pl, depth, alpha, beta)
     ELSE min_loop(b, npc, pl, depth, alpha, beta)

\* minimax scoring a line of player_symbol like a line of npc_symbol
minimax_sign(b, npc, pl, depth, is_maximizing, alpha, beta) ==
  LET winner == check_winner(b)
  IN IF winner = npc THEN <<10 - depth, b>>
     ELSE IF winner = pl THEN <<10 - depth, b>>
     ELSE IF is_full(b) THEN <<0, b>>
     ELSE IF is_maximizing THEN max_loop(b, npc, pl, depth, alpha, beta)
     ELSE min_loop(b, npc, pl, depth, alpha, beta)

\* minimax without the check for a line of player_symbol
minimax_blind(b, npc, pl, depth, is_maximizing, alpha, beta) ==
  LET winner == check_winner(b)
  IN IF winner = npc THEN <<10 - depth, b>>
     ELSE IF is_full(b) THEN <<0, b>>
     ELSE IF is_maximizing THEN max_loop(b, npc, pl, depth, alpha, beta)
     ELSE min_loop(b, npc, pl, depth, alpha, beta)

\* minimax(depth, is_maximizing, alpha, beta) on self.board = b: <<score, board>>
minimax(b, npc, pl, depth, is_maximizing, alpha, beta) ==
  LET winner == check_winner(b)
  IN IF winner = npc THEN <<10 - depth, b>>
     ELSE IF winner = pl THEN <<depth - 10, b>>
     ELSE IF is_full(b) THEN <<0, b>>
     ELSE IF is_maximizing THEN max_loop(b, npc, pl, depth, alpha, beta)
     ELSE min_loop(b, npc, pl, depth, alpha, beta)

RECURSIVE hard_loop(_, _, _, _, _, _, _)
\* hard_loop calling minimax at depth 1
hard_loop_depth_one(b, npc, pl, row, col, best_score, best_move) ==
  IF row = 3 THEN [move |-> best_move, board |-> b, score |-> best_score]
  ELSE IF col = 3 THEN hard_loop(b, npc, pl, row + 1, 0, best_score, best_move)
  ELSE IF b[row][col] # " " THEN hard_loop(b, npc, pl, row, col + 1, best_score, best_move)
  ELSE LET r == minimax([b EXCEPT ![row][col] = npc], npc, pl, 1, FALSE, -maxsize, maxsize)
           restored == [r[2] EXCEPT ![row][col] = " "]
       IN IF r[1] > best_score
          THEN hard_loop(restored, npc, pl, row, col + 1, r[1], <<row, col>>)
          ELSE hard_loop(restored, npc, pl, row, col + 1, best_score, best_move)

\* hard_loop calling minimax for the maximizing side
hard_loop_maximizing(b, npc, pl, row, col, best_score, best_move) ==
  IF row = 3 THEN [move |-> best_move, board |-> b, score |-> best_score]
  ELSE IF col = 3 THEN hard_loop(b, npc, pl, row + 1, 0, best_score, best_move)
  ELSE IF b[row][col] # " " THEN hard_loop(b, npc, pl, row, col + 1, best_score, best_move)
  ELSE LET r == minimax([b EXCEPT ![row][col] = npc], npc, pl, 0, TRUE, -maxsize, maxsize)
           restored == [r[2] EXCEPT ![row][col] = " "]
       IN IF r[1] > best_score
          THEN hard_loop(restored, npc, pl, row, col + 1, r[1], <<row, col>>)
          ELSE hard_loop(restored, npc, pl, row, col + 1, best_score, best_move)

\* the two for loops of hard_move from cell (row, col) on
hard_loop(b, npc, pl, row, col, best_score, best_move) ==
  IF row = 3 THEN [move |-> best_move, board |-> b, score |-> best_score]
  ELSE IF col = 3 THEN hard_loop(b, npc, pl, row + 1, 0, best_score, best_move)
  ELSE IF b[row][col] # " " THEN hard_loop(b, npc, pl, row, col + 1, best_score, best_move)
  ELSE LET r == minimax([b EXCEPT ![row][col] = npc], npc, pl, 0, FALSE, -maxsize, maxsize)
           restored == [r[2] EXCEPT ![row][col] = " "]
       IN IF r[1] > best_score
          THEN hard_loop(restored, npc, pl, row, col + 1, r[1], <<row, col>>)
          ELSE hard_loop(restored, npc, pl, row, col + 1, best_score, best_move)

hard_move(b, npc, pl) == hard_loop(b, npc, pl, 0, 0, -maxsize, None)

npc_move(b, diff, npc, pl) ==
  IF diff = "easy" THEN random_move(b)
  ELSE IF diff = "medium" THEN medium_move(b, npc, pl)
  ELSE IF diff = "hard" THEN {hard_move(b, npc, pl)}
  ELSE random_move(b)

(***************************************************************************)
(* play_game: one action per kind of loop iteration                        *)
(***************************************************************************)

\* the configurations __main__ constructs, and an unrecognized difficulty
Configurations == {<<FALSE, "easy">>} \cup {<<TRUE, d>> : d \in Difficulties}

Init ==
  /\ board = EmptyBoard
  /\ current_player = "X"
  /\ \E cfg \in Configurations : play_with_npc = cfg[1] /\ difficulty = cfg[2]
  /\ player_symbol = "X"
  /\ npc_symbol = "O"
  /\ running = TRUE
  /\ attempt = [who |-> "nobody", move |-> None, raised |-> "none", message |-> ""]
  /\ optimal = {}
  /\ fromStart = FALSE
  /\ choice = None
  /\ promised = {}
  /\ score = -maxsize
  /\ outcome = Unjudged
  /\ NoThreads

\* place_and_judge without the break after a winner was found
place_and_judge_no_break(b, row, col) ==
  LET res == make_move(b, current_player, row, col)
  IN /\ board' = res.board
     /\ IF res.raised # "none"
        THEN UNCHANGED <<current_player, running>>
        ELSE IF is_full(res.board)
        THEN running' = FALSE /\ UNCHANGED current_player
        ELSE /\ current_player' = switch_player(current_player, player_symbol, npc_symbol)
             /\ UNCHANGED running

\* place_and_judge without the break on a full board
place_and_judge_tie_goes_on(b, row, col) ==
  LET res == make_move(b, current_player, row, col)
  IN /\ board' = res.board
     /\ IF res.raised # "none"
        THEN UNCHANGED <<current_player, running>>
        ELSE IF check_winner(res.board) # NoWinner
        THEN running' = FALSE /\ UNCHANGED current_player
        ELSE /\ current_player' = switch_player(current_player, player_symbol, npc_symbol)
             /\ UNCHANGED running

\* place_and_judge switching the turn marker after a rejected move too
place_and_judge_always_switch(b, row, col) ==
  LET res == make_move(b, current_player, row, col)
  IN /\ board' = res.board
     /\ IF res.raised # "none"
        THEN /\ current_player' = switch_player(current_player, player_symbol, npc_symbol)
             /\ UNCHANGED running
        ELSE IF check_winner(res.board) # NoWinner \/ is_full(res.board)
        THEN running' = FALSE /\ UNCHANGED current_player
        ELSE /\ current_player' = switch_player(current_player, player_symbol, npc_symbol)
             /\ UNCHANGED running

\* lines 186-202 of play_game: self.make_move(row, col) on self.board = b and
\* what follows it (an InvalidMoveError skips the rest of the iteration)
place_and_judge(b, row, col) ==
  LET res == make_move(b, current_player, row, col)
  IN /\ board' = res.board
     /\ IF res.raised # "none"
        THEN UNCHANGED <<current_player, running>>
        ELSE IF check_winner(res.board) # NoWinner \/ is_full(res.board)
        THEN running' = FALSE /\ UNCHANGED current_player
        ELSE /\ current_player' = switch_player(current_player, player_symbol, npc_symbol)
             /\ UNCHANGED running

\* the record of an iteration that reached make_move(row, col)
attempted(who, b, row, col) ==
  LET res == make_move(b, current_player, row, col)
  IN [who |-> who, move |-> <<row, col>>, raised |-> res.raised, message |-> res.message]

\* an except clause of play_game: the loop goes on with nothing but the log written
caught(who, b, exception) ==
  /\ board' = b
  /\ attempt' = [who |-> who, move |-> None, raised |-> exception, message |-> ""]
  /\ UNCHANGED <<current_player, running>>

human_to_move == ~(play_with_npc /\ current_player = npc_symbol)

\* an iteration in which input() yields two integers
HumanTurn ==
  /\ running
  /\ human_to_move
  /\ \E in_row \in InputRange, in_col \in InputRange :
       /\ place_and_judge(board, in_row - 1, in_col - 1)
       /\ attempt' = attempted("human", board, in_row - 1, in_col - 1)
  /\ UNCHANGED <<play_with_npc, difficulty, player_symbol, npc_symbol, optimal, fromStart, choice, promised>>
  /\ UNCHANGED <<score, outcome, threads>>

\* an iteration in which input() yields anything else: ValueError
HumanMalformed ==
  /\ running
  /\ human_to_move
  /\ caught("human", board, "ValueError")
  /\ UNCHANGED <<play_with_npc, difficulty, player_symbol, npc_symbol, optimal, fromStart, choice, promised>>
  /\ UNCHANGED <<score, outcome, threads>>

\* an iteration in which npc_move() supplies the cell
NpcTurn ==
  /\ running
  /\ ~human_to_move
  /\ \E results \in {npc_move(board, difficulty, npc_symbol, player_symbol)} :
       IF results = {}
       THEN caught("npc", board, "IndexError")
       ELSE \E res \in results :
              IF res.move = None
              THEN caught("npc", res.board, "TypeError")
              ELSE /\ place_and_judge(res.board, res.move[1], res.move[2])
                   /\ attempt' = attempted("npc", res.board, res.move[1], res.move[2])
  /\ UNCHANGED <<play_with_npc, difficulty, player_symbol, npc_symbol, optimal, fromStart, choice, promised>>
  /\ UNCHANGED <<score, outcome, threads>>

Next == HumanTurn \/ HumanMalformed \/ NpcTurn

Spec == Init /\ [][Next]_vars

(***************************************************************************)
(* The outcome of a board.  play_game derives it after each applied move   *)
(* from check_winner and is_full (lines 188-201); the same code judges any *)
(* 3x3 grid of cell values, also one that no game produces.                *)
(***************************************************************************)

\* every 3x3 grid over the three cell values
AllBoards == [0..2 -> [0..2 -> {" ", "X", "O"}]]

\* lines 188-201 of play_game: winner = check_winner(); "if winner" holds for
\* a returned symbol and fails for None; "elif self.is_full()"
evaluate(b) ==
  LET winner == check_winner(b)
  IN IF winner # NoWinner THEN <<"Win", winner>>
     ELSE IF is_full(b) THEN <<"Draw">>
     ELSE <<"InProgress">>

InitOutcome ==
  /\ board \in AllBoards
  /\ current_player = "X"
  /\ play_with_npc = FALSE
  /\ difficulty = "easy"
  /\ player_symbol = "X"
  /\ npc_symbol = "O"
  /\ running = TRUE
  /\ attempt = [who |-> "nobody", move |-> None, raised |-> "none", message |-> ""]
  /\ optimal = {}
  /\ fromStart = FALSE
  /\ choice = None
  /\ promised = {}
  /\ score = -maxsize
  /\ outcome = Unjudged
  /\ NoThreads

\* judge the board as lines 188-201 do
Judge ==
  /\ outcome = Unjudged
  /\ outcome' = evaluate(board)
  /\ UNCHANGED <<board, current_player, play_with_npc, difficulty, player_symbol, npc_symbol, running,
                 attempt, optimal, fromStart, choice, promised, score, threads>>

SpecOutcome == InitOutcome /\ [][Judge]_vars

(***************************************************************************)
(* Self-play driver.  The strategies of the class play for self.npc_symbol *)
(* against self.player_symbol; a driver that lets hard_move play a symbol  *)
(* assigns the two fields to the side to move before it calls hard_move,   *)
(* then places the returned cell with make_move and judges the board as    *)
(* play_game does.  The symbols in optimal are played by hard_move, the    *)
(* others by any legal move.  A symbol can be handed to hard_move before   *)
(* the first move (fromStart) or, when hard_move plays nobody yet, at any  *)
(* later point of the game.                                                *)
(***************************************************************************)

\* s holds all three cells of one of the eight lines of b
has_line(b, s) == <<s, s, s>> \in {lines(b)[i] : i \in 1..8}

\* b with s written to the cell m
with_move(b, m, s) == [b EXCEPT ![m[1]][m[2]] = s]

RECURSIVE CanForceWin(_, _, _)
\* the game-theoretic reference: with turn to move on b, s wins whatever
\* the other side plays
CanForceWin(b, s, turn) ==
  IF has_line(b, s) THEN TRUE
  ELSE IF has_line(b, Other(s)) \/ is_full(b) THEN FALSE
  ELSE IF turn = s
  THEN \E m \in available_moves(b) : CanForceWin(with_move(b, m, s), s, Other(s))
  ELSE \A m \in available_moves(b) : CanForceWin(with_move(b, m, turn), s, s)

InitDriver ==
  /\ board = EmptyBoard
  /\ current_player = "X"
  /\ play_with_npc = TRUE
  /\ difficulty = "hard"
  /\ optimal \in SUBSET Symbols
  /\ fromStart = (optimal # {})
  /\ npc_symbol = IF optimal = {"X"} THEN "X" ELSE "O"
  /\ player_symbol = Other(npc_symbol)
  /\ running = TRUE
  /\ attempt = [who |-> "nobody", move |-> None, raised |-> "none", message |-> ""]
  /\ choice = None
  /\ promised = {}
  /\ score = -maxsize
  /\ outcome = Unjudged
  /\ NoThreads

\* hand the side to move to hard_move for the rest of the game
Enlist ==
  /\ running
  /\ optimal = {}
  /\ Count(board, "X") > 0
  /\ optimal' = {current_player}
  /\ npc_symbol' = current_player
  /\ player_symbol' = Other(current_player)
  /\ UNCHANGED <<board, current_player, play_with_npc, difficulty, running, attempt, fromStart, choice, promised>>
  /\ UNCHANGED <<score, outcome, threads>>

\* row, col = hard_move() for the side to move
Decide ==
  /\ running
  /\ current_player \in optimal
  /\ choice = None
  /\ npc_symbol' = current_player
  /\ player_symbol' = Other(current_player)
  /\ \E res \in {hard_move(board, current_player, Other(current_player))} :
       /\ choice' = res.move
       /\ board' = res.board
       /\ score' = res.score
  /\ promised' = IF CanForceWin(board, current_player, current_player)
                 THEN promised \cup {current_player}
                 ELSE promised
  /\ UNCHANGED <<current_player, play_with_npc, difficulty, running, attempt, optimal, fromStart>>
  /\ UNCHANGED <<outcome, threads>>

\* make_move(row, col) with the cell hard_move returned, then judge the board
Commit ==
  /\ running
  /\ choice # None
  /\ place_and_judge(board, choice[1], choice[2])
  /\ choice' = None
  /\ score' = -maxsize
  /\ UNCHANGED <<play_with_npc, difficulty, player_symbol, npc_symbol, attempt, optimal, fromStart, promised>>
  /\ UNCHANGED <<outcome, threads>>

\* any legal move of a side hard_move does not play
OpenMove ==
  /\ running
  /\ current_player \notin optimal
  /\ \E m \in available_moves(board) : place_and_judge(board, m[1], m[2])
  /\ UNCHANGED <<play_with_npc, difficulty, player_symbol, npc_symbol, attempt, optimal, fromStart, choice, promised>>
  /\ UNCHANGED <<score, outcome, threads>>

NextDriver == Enlist \/ Decide \/ Commit \/ OpenMove

SpecDriver == InitDriver /\ [][NextDriver]_vars

(***************************************************************************)
(* External threads that call make_move on one instance.  A call is a      *)
(* sequence of steps: the bounds check of lines 40-41 on the arguments,    *)
(* entering "with self.lock" (line 42), the emptiness check (lines 43-44), *)
(* the write (line 45) and the return (line 46); leaving the with block,   *)
(* by return or by raise, releases the lock.                               *)
(***************************************************************************)

\* the number of external threads
MaxCallers == 2

\* the number of make_move calls of one thread
MaxCalls == 2

Callers == 1..MaxCallers

\* the rows and columns the threads pass: two cells of the board and two
\* cells beyond column 2
CallerRows == 0..1

CallerCols == 2..3

InitCallers ==
  /\ board = EmptyBoard
  /\ current_player = "X"
  /\ play_with_npc = FALSE
  /\ difficulty = "easy"
  /\ player_symbol = "X"
  /\ npc_symbol = "O"
  /\ running = TRUE
  /\ attempt = [who |-> "nobody", move |-> None, raised |-> "none", message |-> ""]
  /\ optimal = {}
  /\ fromStart = FALSE
  /\ choice = None
  /\ promised = {}
  /\ score = -maxsize
  /\ outcome = Unjudged
  /\ lock = NoThread
  /\ callers = [t \in Callers |-> [pc |-> "idle", row |-> 0, col |-> 0, calls |-> 0, result |-> "none"]]
  /\ tally = [m \in Cells |-> [called |-> 0, writes |-> 0, returned |-> 0, taken |-> 0]]
  /\ search = [pc |-> "idle"]
  /\ reader = [pc |-> "idle"]

\* what a step of a caller leaves alone
CallerFrame ==
  UNCHANGED <<current_player, play_with_npc, difficulty, player_symbol, npc_symbol, running,
              attempt, optimal, fromStart, choice, promised, score, outcome, search, reader>>

\* thread t calls make_move(row, col): lines 40-41
Call(t, row, col) ==
  /\ callers[t].pc = "idle"
  /\ callers[t].calls < MaxCalls
  /\ IF ~(0 <= row /\ row < 3 /\ 0 <= col /\ col < 3)
     THEN /\ callers' = [callers EXCEPT ![t] = [pc |-> "idle", row |-> row, col |-> col, calls |-> @.calls + 1,
                                                result |-> "Row or column is out of bounds"]]
          /\ UNCHANGED tally
     ELSE /\ callers' = [callers EXCEPT ![t] = [pc |-> "acquire", row |-> row, col |-> col, calls |-> @.calls + 1,
                                                result |-> "none"]]
          /\ tally' = [tally EXCEPT ![<<row, col>>].called = @ + 1]
  /\ UNCHANGED <<board, lock>>
  /\ CallerFrame

\* Acquire taking the lock without waiting for it to be free
AcquireWithoutWaiting(t) ==
  /\ callers[t].pc = "acquire"
  /\ lock' = t
  /\ callers' = [callers EXCEPT ![t].pc = "check"]
  /\ UNCHANGED <<board, tally>>
  /\ CallerFrame

\* thread t enters "with self.lock": line 42
Acquire(t) ==
  /\ callers[t].pc = "acquire"
  /\ lock = NoThread
  /\ lock' = t
  /\ callers' = [callers EXCEPT ![t].pc = "check"]
  /\ UNCHANGED <<board, tally>>
  /\ CallerFrame

\* thread t tests the cell: lines 43-44; the raise leaves the with block
CheckSpot(t) ==
  /\ callers[t].pc = "check"
  /\ IF board[callers[t].row][callers[t].col] # " "
     THEN /\ callers' = [callers EXCEPT ![t].pc = "idle", ![t].result = "Spot is already taken"]
          /\ tally' = [tally EXCEPT ![<<callers[t].row, callers[t].col>>].taken = @ + 1]
          /\ lock' = IF lock = t THEN NoThread ELSE lock
     ELSE /\ callers' = [callers EXCEPT ![t].pc = "write"]
          /\ UNCHANGED <<tally, lock>>
  /\ UNCHANGED board
  /\ CallerFrame

\* thread t writes the cell: line 45
WriteSpot(t) ==
  /\ callers[t].pc = "write"
  /\ board' = [board EXCEPT ![callers[t].row][callers[t].col] = current_player]
  /\ tally' = [tally EXCEPT ![<<callers[t].row, callers[t].col>>].writes = @ + 1]
  /\ callers' = [callers EXCEPT ![t].pc = "return"]
  /\ UNCHANGED lock
  /\ CallerFrame

\* thread t returns True: line 46; the return leaves the with block
ReturnTrue(t) ==
  /\ callers[t].pc = "return"
  /\ callers' = [callers EXCEPT ![t].pc = "idle", ![t].result = "True"]
  /\ tally' = [tally EXCEPT ![<<callers[t].row, callers[t].col>>].returned = @ + 1]
  /\ lock' = IF lock = t THEN NoThread ELSE lock
  /\ UNCHANGED board
  /\ CallerFrame

NextCallers ==
  \E t \in Callers :
    \/ \E row \in CallerRows, col \in CallerCols : Call(t, row, col)
    \/ Acquire(t)
    \/ CheckSpot(t)
    \/ WriteSpot(t)
    \/ ReturnTrue(t)

SpecCallers == InitCallers /\ [][NextCallers]_vars

(***************************************************************************)
(* A thread that draws the board while the NPC turn of difficulty 'medium' *)
(* searches on the same instance.  draw_board holds self.lock while it     *)
(* prints the three rows (lines 33-37); find_best_move writes and restores *)
(* self.board without the lock (lines 110-118), one cell at a time; the    *)
(* make_move that places the chosen cell takes the lock (lines 42-46).     *)
(***************************************************************************)

\* the number of moves played before the NPC turn that is observed
MaxSetUp == 3

\* the holder of self.lock while draw_board runs
ReaderThread == -1

InitReader ==
  /\ board = EmptyBoard
  /\ current_player = "X"
  /\ play_with_npc = TRUE
  /\ difficulty = "medium"
  /\ player_symbol = "X"
  /\ npc_symbol = "O"
  /\ running = TRUE
  /\ attempt = [who |-> "nobody", move |-> None, raised |-> "none", message |-> ""]
  /\ optimal = {}
  /\ fromStart = FALSE
  /\ choice = None
  /\ promised = {}
  /\ score = -maxsize
  /\ outcome = Unjudged
  /\ lock = NoThread
  /\ callers = <<>>
  /\ tally = <<>>
  /\ search = [pc |-> "idle"]
  /\ reader = [pc |-> "idle", seen |-> <<>>]

\* what the steps of the two threads leave alone
ReaderFrame ==
  UNCHANGED <<play_with_npc, difficulty, player_symbol, npc_symbol, attempt, optimal, fromStart,
              choice, promised, score, outcome, callers, tally>>

\* an applied move of the game before the observed NPC turn
SetUp ==
  /\ running
  /\ search.pc = "idle"
  /\ lock = NoThread
  /\ Count(board, " ") > 9 - MaxSetUp
  /\ \E m \in available_moves(board) : place_and_judge(board, m[1], m[2])
  /\ UNCHANGED <<lock, search, reader>>
  /\ ReaderFrame

\* npc_move() calls medium_move(), which calls find_best_move(self.npc_symbol)
StartSearch ==
  /\ running
  /\ search.pc = "idle"
  /\ current_player = npc_symbol
  /\ search' = [pc |-> "probe", symbol |-> npc_symbol, row |-> 0, col |-> 0, start |-> board, move |-> None]
  /\ UNCHANGED <<board, current_player, running, lock, reader>>
  /\ ReaderFrame

\* the loop variables of find_best_move after the cell (row, col)
next_cell(sr) ==
  IF sr.col = 2 THEN [sr EXCEPT !.row = @ + 1, !.col = 0, !.pc = "probe"]
  ELSE [sr EXCEPT !.col = @ + 1, !.pc = "probe"]

\* lines 112-113: an empty cell is written with the symbol
ProbeCell ==
  /\ search.pc = "probe"
  /\ search.row < 3
  /\ IF board[search.row][search.col] = " "
     THEN /\ board' = [board EXCEPT ![search.row][search.col] = search.symbol]
          /\ search' = [search EXCEPT !.pc = "judge"]
     ELSE /\ search' = next_cell(search)
          /\ UNCHANGED board
  /\ UNCHANGED <<current_player, running, lock, reader>>
  /\ ReaderFrame

\* lines 114-117: check_winner, then the cell is restored
JudgeCell ==
  /\ search.pc = "judge"
  /\ board' = [board EXCEPT ![search.row][search.col] = " "]
  /\ search' = IF check_winner(board) = search.symbol
               THEN [search EXCEPT !.pc = "found", !.move = <<search.row, search.col>>]
               ELSE next_cell(search)
  /\ UNCHANGED <<current_player, running, lock, reader>>
  /\ ReaderFrame

\* line 118: find_best_move returns None; medium_move goes on with the scan
\* for player_symbol (line 90) and after that with the rules of lines 93-107
ScanEnd ==
  /\ search.pc = "probe"
  /\ search.row = 3
  /\ IF search.symbol = npc_symbol
     THEN search' = [search EXCEPT !.symbol = player_symbol, !.row = 0, !.col = 0]
     ELSE \E res \in medium_move(board, npc_symbol, player_symbol) :
            search' = [search EXCEPT !.pc = "found", !.move = res.move]
  /\ UNCHANGED <<board, current_player, running, lock, reader>>
  /\ ReaderFrame

\* line 186: make_move places the returned cell under the lock
CommitSearch ==
  /\ search.pc = "found"
  /\ lock = NoThread
  /\ place_and_judge(board, search.move[1], search.move[2])
  /\ search' = [search EXCEPT !.pc = "done"]
  /\ UNCHANGED <<lock, reader>>
  /\ ReaderFrame

\* line 33: draw_board enters "with self.lock" while the NPC turn is under way
ReaderAcquire ==
  /\ reader.pc = "idle"
  /\ search.pc # "idle"
  /\ lock = NoThread
  /\ lock' = ReaderThread
  /\ reader' = [pc |-> "rows", seen |-> <<>>]
  /\ UNCHANGED <<board, current_player, running, search>>
  /\ ReaderFrame

\* lines 35-37: one row is printed
ReaderRow ==
  /\ reader.pc = "rows"
  /\ Len(reader.seen) < 3
  /\ reader' = [reader EXCEPT !.seen = Append(@, board[Len(@)])]
  /\ UNCHANGED <<board, current_player, running, lock, search>>
  /\ ReaderFrame

\* the with block of draw_board is left
ReaderRelease ==
  /\ reader.pc = "rows"
  /\ Len(reader.seen) = 3
  /\ lock' = NoThread
  /\ reader' = [reader EXCEPT !.pc = "idle"]
  /\ UNCHANGED <<board, current_player, running, search>>
  /\ ReaderFrame

NextReader ==
  \/ SetUp
  \/ StartSearch
  \/ ProbeCell
  \/ JudgeCell
  \/ ScanEnd
  \/ CommitSearch
  \/ ReaderAcquire
  \/ ReaderRow
  \/ ReaderRelease

SpecReader == InitReader /\ [][NextReader]_vars

(***************************************************************************)
(* Reference definitions for the properties                                *)
(***************************************************************************)

SetMax(S) == CHOOSE x \in S : \A y \in S : y <= x

SetMin(S) == CHOOSE x \in S : \A y \in S : x <= y

\* the position of a cell in the row-major scan
RowMajor(m) == 3 * m[1] + m[2]

\* the first cell of S in the row-major scan
FirstCell(S) == CHOOSE m \in S : \A n \in S : RowMajor(m) <= RowMajor(n)

\* the empty cells of b that complete a line of s
WinningCells(b, s) == {m \in available_moves(b) : has_line(with_move(b, m, s), s)}

\* the number of complete lines of b
CompleteLines(b) == Cardinality({i \in 1..8 : \E s \in Symbols : lines(b)[i] = <<s, s, s>>})

RECURSIVE FirstComplete(_, _)
\* the symbol of the first complete line of the sequence ls from position i on
FirstComplete(ls, i) ==
  IF i > Len(ls) THEN NoWinner
  ELSE IF \E s \in Symbols : ls[i] = <<s, s, s>> THEN ls[i][1]
  ELSE FirstComplete(ls, i + 1)

Reverse(seq) == [i \in 1..Len(seq) |-> seq[Len(seq) + 1 - i]]

\* the board as it was before the cell of the last attempt was written
BoardBefore == with_move(board, attempt.move, " ")

\* the lines through a cell, each as the set of its cells
LinesThrough ==
  [m \in Cells |->
     {l \in { {<<r, 0>>, <<r, 1>>, <<r, 2>>} : r \in 0..2 } \cup
            { {<<0, c>>, <<1, c>>, <<2, c>>} : c \in 0..2 } \cup
            { {<<0, 0>>, <<1, 1>>, <<2, 2>>}, {<<0, 2>>, <<1, 1>>, <<2, 0>>} } : m \in l}]

\* writing s to the cell m of b completes a line of s
Completes(b, m, s) ==
  \E l \in LinesThrough[m] : \A c \in l : c = m \/ b[c[1]][c[2]] = s

RECURSIVE PlainMinimax(_, _, _, _, _, _, _)
\* minimax without alpha, beta and cutoff, for the board b without a complete
\* line and with the set free of empty cells, after `mover` has written the
\* cell m of free: the terminal scores of minimax (10 - depth for a line of
\* npc, depth - 10 for a line of pl, 0 for a full board), else the maximum
\* over the empty cells when npc moves next and the minimum when pl does
PlainMinimax(b, npc, pl, depth, mover, m, free) ==
  IF Completes(b, m, mover) THEN (IF mover = npc THEN 10 - depth ELSE depth - 10)
  ELSE IF free = {m} THEN 0
  ELSE LET after == with_move(b, m, mover)
           next == IF mover = npc THEN pl ELSE npc
           scores == {PlainMinimax(after, npc, pl, depth + 1, next, n, free \ {m}) : n \in free \ {m}}
       IN IF next = npc
          THEN CHOOSE x \in scores : \A y \in scores : y <= x
          ELSE CHOOSE x \in scores : \A y \in scores : x <= y

\* the move selection over PlainMinimax: the row-major first cell among
\* those of the greatest score
PlainMove(b, npc, pl) ==
  LET free == available_moves(b)
      scored == {<<m, PlainMinimax(b, npc, pl, 0, npc, m, free)>> : m \in free}
      best == SetMax({p[2] : p \in scored})
  IN FirstCell({p[1] : p \in {q \in scored : q[2] = best}})

(***************************************************************************)
(* Properties of the Optimal strategy                                      *)
(***************************************************************************)

\* C1: in a game of play_game against the NPC at difficulty 'hard', no board
\* has a complete line of the human symbol, and the game ends only with a
\* complete line of the NPC or with a full board without a complete line.
HardNeverLoses ==
  (play_with_npc /\ difficulty = "hard") =>
    /\ ~has_line(board, player_symbol)
    /\ ~running => \/ has_line(board, npc_symbol)
                   \/ is_full(board) /\ check_winner(board) = NoWinner

\* C1 witness: a game against the hard NPC that the NPC has won.
HardNpcHasWon ==
  /\ play_with_npc
  /\ difficulty = "hard"
  /\ ~running
  /\ attempt.who = "npc"
  /\ has_line(board, npc_symbol)

\* C2: when hard_move chooses every move of both symbols from the empty board
\* on, the game ends in a draw: the final board is full without a complete line.
OptimalAgainstOptimalDraws ==
  (fromStart /\ optimal = Symbols /\ ~running) =>
    /\ is_full(board)
    /\ ~has_line(board, "X")
    /\ ~has_line(board, "O")

\* C2 witness: a game in which hard_move played both symbols has ended.
OptimalAgainstOptimalEnded ==
  /\ fromStart
  /\ optimal = Symbols
  /\ ~running
  /\ Count(board, " ") = 0

\* C3: when hard_move makes the first move on the empty board and every later
\* move of the first mover, the defender never completes a line, whatever
\* legal replies it makes.
FirstMoverNeverLoses ==
  (fromStart /\ "X" \in optimal) => ~has_line(board, "O")

\* C3 witness: hard_move as first mover has won against a free defender.
FirstMoverHasWon ==
  /\ fromStart
  /\ optimal = {"X"}
  /\ ~running
  /\ has_line(board, "X")

\* C4: a symbol that hard_move was called for on a board from which it can
\* force a win, and that hard_move has played since, has a complete line when
\* the game ends, whatever legal replies the other side made.
ForcedWinIsWon ==
  /\ ~running => \A s \in promised : has_line(board, s)
  /\ \A s \in promised : CanForceWin(board, s, current_player) \/ has_line(board, s)

\* C4 witness: a game taken over by hard_move on a board with a forced win
\* has ended with that symbol's line after at least two further moves of it.
ForcedWinWasWon ==
  /\ ~fromStart
  /\ promised # {}
  /\ promised = optimal
  /\ ~running
  /\ \A s \in promised : has_line(board, s)

\* C5: the cell hard_move returns is the cell the move selection over minimax
\* without pruning returns.
PruningKeepsTheMove ==
  choice # None => choice = PlainMove(board, npc_symbol, player_symbol)

\* C5 witness: hard_move has returned a cell on a board holding a single move.
PruningWasExercised ==
  /\ choice # None
  /\ Count(board, " ") = 8

(***************************************************************************)
(* Properties of play_game                                                 *)
(***************************************************************************)

in_bounds(m) == 0 <= m[1] /\ m[1] < 3 /\ 0 <= m[2] /\ m[2] < 3

\* C6: a make_move call on a cell outside the board or on a cell that is not
\* empty raises the invalid-move error and leaves all nine cells as they were.
RejectedMoveKeepsBoard ==
  [][attempt'.move # None =>
       LET m == attempt'.move
           rejected == IF in_bounds(m) THEN board[m[1]][m[2]] # " " ELSE TRUE
       IN /\ rejected => /\ attempt'.raised = "InvalidMoveError"
                         /\ board' = board
          /\ attempt'.raised = "InvalidMoveError" => /\ rejected
                                                    /\ board' = board
          /\ ~in_bounds(m) => attempt'.message = "Row or column is out of bounds"
          /\ (in_bounds(m) /\ rejected) => attempt'.message = "Spot is already taken"]_vars

\* C6 witness: row 3 (input 4) was rejected on a board that holds moves.
OutOfBoundsRejected ==
  /\ attempt.move # None
  /\ attempt.move[1] = 3
  /\ attempt.raised = "InvalidMoveError"
  /\ Count(board, "X") = 2

\* the pre-state of an iteration in which medium_move supplies the cell
MediumToMove == running /\ ~human_to_move /\ difficulty = "medium"

XCountInvariant ==
  \/ Count(board, "X") = Count(board, "O")
  \/ Count(board, "X") = Count(board, "O") + 1

\* C9 witness: an accepted O move has levelled the counts at two cells each.
XCountWitness ==
  /\ attempt.raised = "none"
  /\ attempt.move # None
  /\ board[attempt.move[1]][attempt.move[2]] = "O"
  /\ Count(board, "X") = 2
  /\ Count(board, "O") = 2

\* C10: on every board of a game of play_game at most one symbol has a
\* complete line, so check_winner yields that symbol (None when there is
\* none) and yields the same when it scans the lines in the opposite order.
AtMostOneWinner ==
  /\ ~(has_line(board, "X") /\ has_line(board, "O"))
  /\ \A s \in Symbols : has_line(board, s) <=> check_winner(board) = s
  /\ FirstComplete(Reverse(lines(board)), 1) = check_winner(board)

\* C10 witness: a game has ended on a board with two complete lines.
TwoLinesAtOnce ==
  /\ ~running
  /\ CompleteLines(board) = 2

(***************************************************************************)
(* Properties of the strategy calls and of the loop of play_game           *)
(***************************************************************************)

\* C11: when a strategy call returns (random_move, find_best_move,
\* medium_move, hard_move and the minimax calls hard_move makes), all nine
\* cells hold the values they held when the call started; the only lasting
\* change of a turn is the one cell make_move writes afterwards.
StrategiesRestoreTheBoard ==
  [][/\ \A s \in Symbols : find_best_move(board, s).board = board
     /\ \A res \in random_move(board) \cup medium_move(board, npc_symbol, player_symbol) :
          res.board = board
     /\ (choice = None /\ choice' # None) =>
          /\ board' = board
          /\ \A m \in available_moves(board) :
               LET probed == with_move(board, m, npc_symbol')
               IN minimax(probed, npc_symbol', player_symbol', 0, FALSE, -maxsize, maxsize)[2] = probed
     /\ (choice # None /\ choice' = None) =>
          /\ board[choice[1]][choice[2]] = " "
          /\ board' = with_move(board, choice, current_player)]_vars

\* C11 witness: hard_move has returned on a board with five empty cells on
\* which its search met a line of its own symbol after the first probe.
SearchReturned ==
  /\ choice # None
  /\ Count(board, " ") = 5
  /\ WinningCells(board, current_player) # {}
\* the iteration that leads to the next state has applied a move
accepted == attempt'.move # None /\ attempt'.raised = "none"

\* C12 as stated: the turn marker changes exactly when a move is accepted; a
\* malformed or rejected turn leaves current_player and the board unchanged,
\* and after each applied move the marker switches to the other symbol.
MarkerSwitchesAfterEveryAcceptedMove ==
  [][/\ ~accepted => (board' = board /\ current_player' = current_player)
     /\ accepted => current_player' = Other(current_player)]_vars

\* C12 amended: a malformed or rejected turn leaves current_player and the
\* board unchanged; an applied move that does not end the game switches the
\* marker to the other symbol, and the move that completes a line or fills
\* the board leaves the marker at the symbol that made it.  The applied
\* moves are made by alternating symbols starting with X.
TurnMarkerAlternates ==
  [][/\ current_player = (IF Count(board, "X") = Count(board, "O") THEN "X" ELSE "O")
     /\ ~accepted => (board' = board /\ current_player' = current_player)
     /\ accepted =>
          /\ board' = with_move(board, attempt'.move, current_player)
          /\ current_player' = (IF running' THEN Other(current_player) ELSE current_player)]_vars

\* C12 witness: in a game of two humans O chose a taken cell after two
\* applied moves of each side and is still to move.
RejectedMoveRetried ==
  /\ ~play_with_npc
  /\ attempt.raised = "InvalidMoveError"
  /\ attempt.message = "Spot is already taken"
  /\ Count(board, "X") = 3
  /\ Count(board, "O") = 2
  /\ current_player = "O"
  /\ running
\* the eight lines, each as the set of its cells
AllLines == UNION {LinesThrough[m] : m \in Cells}

\* b holds a complete line or has no empty cell
Terminal(b) ==
  \/ \E l \in AllLines : \E s \in Symbols : \A c \in l : b[c[1]][c[2]] = s
  \/ \A c \in Cells : b[c[1]][c[2]] # " "

\* C13: once an applied move produces a complete line or a full board the
\* loop of play_game stops; after that no move is placed and the turn marker
\* does not change, and no move is ever placed on a board with a complete line.
TerminalIsAbsorbing ==
  [][/\ Terminal(board') <=> ~running'
     /\ ~running => (board' = board /\ current_player' = current_player)
     /\ board' # board => ~Terminal(board)
     /\ ~running' => current_player' = current_player]_vars

\* C13 witness: the game has stopped on O's third move, three cells empty.
StoppedOnALine ==
  /\ ~running
  /\ has_line(board, "O")
  /\ Count(board, " ") = 3
\* C14: every game of play_game ends with a complete line or a full board
\* after at most 9 applied moves, provided the human does not type rejected
\* or malformed input forever; NPC turns never stall the loop.  Stated as
\* the conditions under which weak fairness of the applied human move gives
\* termination: each applied move takes one of the nine empty cells and no
\* other iteration changes the board; while the loop runs, some input the
\* human can type is applied, and every iteration of the NPC applies a move;
\* the loop stops at the latest when no cell is empty, and only on a
\* complete line or a full board.
GameEndsWithinNineMoves ==
  [][/\ human_to_move =>
          \E in_row \in InputRange, in_col \in InputRange :
            make_move(board, current_player, in_row - 1, in_col - 1).raised = "none"
     /\ ~human_to_move => accepted
     /\ accepted => Count(board', " ") = Count(board, " ") - 1
     /\ ~accepted => (board' = board /\ running')
     /\ Count(board', " ") = 0 => ~running'
     /\ ~running' => Terminal(board')]_vars

\* C14 witness: a game against the NPC at difficulty 'medium' has ended in a
\* draw with the ninth applied move.
EndedWithTheNinthMove ==
  /\ play_with_npc
  /\ difficulty = "medium"
  /\ ~running
  /\ Count(board, " ") = 0
  /\ ~has_line(board, "X")
  /\ ~has_line(board, "O")
\* C15: whenever play_game invokes npc_move the board has an empty cell and
\* no complete line, and for each difficulty (easy, medium, hard, and an
\* unrecognized value) the returned cell is in bounds and empty, so the
\* make_move that follows does not raise and the turn places exactly one cell.
NpcTurnAlwaysPlaces ==
  [][(running /\ ~human_to_move) =>
       /\ available_moves(board) # {}
       /\ ~has_line(board, "X") /\ ~has_line(board, "O")
       /\ attempt'.who = "npc"
       /\ attempt'.move # None
       /\ in_bounds(attempt'.move)
       /\ board[attempt'.move[1]][attempt'.move[2]] = " "
       /\ attempt'.raised = "none"
       /\ board' = with_move(board, attempt'.move, npc_symbol)]_vars

\* C15 witness: the NPC of an unrecognized difficulty has placed the eighth
\* move and the game goes on.
UnrecognizedNpcPlaced ==
  /\ difficulty = "impossible"
  /\ attempt.who = "npc"
  /\ attempt.raised = "none"
  /\ Count(board, " ") = 1
  /\ running
\* the eight lines in the order rows, columns, diagonals, each as its cells
LineOrder ==
  << <<<<0, 0>>, <<0, 1>>, <<0, 2>>>>, <<<<1, 0>>, <<1, 1>>, <<1, 2>>>>, <<<<2, 0>>, <<2, 1>>, <<2, 2>>>>,
     <<<<0, 0>>, <<1, 0>>, <<2, 0>>>>, <<<<0, 1>>, <<1, 1>>, <<2, 1>>>>, <<<<0, 2>>, <<1, 2>>, <<2, 2>>>>,
     <<<<0, 0>>, <<1, 1>>, <<2, 2>>>>, <<<<0, 2>>, <<1, 1>>, <<2, 0>>>> >>

\* the reference outcome of b: Win(s) for the symbol s of the first line in
\* LineOrder whose three cells hold the same symbol, else Draw when no cell
\* is empty, else InProgress
RefOutcome(b) ==
  LET complete == {i \in 1..8 : \E s \in Symbols : \A k \in 1..3 : b[LineOrder[i][k][1]][LineOrder[i][k][2]] = s}
      first == CHOOSE i \in complete : \A j \in complete : i <= j
  IN IF complete # {} THEN <<"Win", b[LineOrder[first][1][1]][LineOrder[first][1][2]]>>
     ELSE IF \A m \in Cells : b[m[1]][m[2]] # " " THEN <<"Draw">>
     ELSE <<"InProgress">>

\* C16: for every 3x3 board over {empty, X, O}, reachable or not, the outcome
\* computed by check_winner followed by is_full is Win(s) for the symbol s of
\* the first complete line in the order rows, columns, diagonals, else Draw
\* if no cell is empty, else InProgress; a full board with a complete line is
\* a Win.
OutcomeMatchesReference ==
  outcome # Unjudged =>
    /\ outcome = RefOutcome(board)
    /\ (Count(board, " ") = 0 /\ (has_line(board, "X") \/ has_line(board, "O"))) => outcome[1] = "Win"

\* C16 witness: a full board with the line of X in row 0 and a line of O in
\* row 1 was judged a win of X.
FirstLineDecides ==
  /\ outcome = <<"Win", "X">>
  /\ lines(board)[1] = <<"X", "X", "X">>
  /\ lines(board)[2] = <<"O", "O", "O">>
  /\ Count(board, " ") = 0
(***************************************************************************)
(* Properties of the scores of hard_move                                   *)
(***************************************************************************)

\* C17: hard_move called on a board reached by legal play on which an empty
\* cell completes a line of its symbol returns the row-major first such
\* cell, never a cell that only wins later.
HardTakesImmediateWin ==
  (choice # None /\ WinningCells(board, npc_symbol) # {}) =>
    choice = FirstCell(WinningCells(board, npc_symbol))

\* C17 witness: hard_move has returned a cell that completes its line while
\* an empty cell earlier in the scan forces a win later.
ImmediateWinOverLaterWin ==
  /\ choice # None
  /\ choice \in WinningCells(board, npc_symbol)
  /\ \E m \in available_moves(board) :
       /\ RowMajor(m) < RowMajor(choice)
       /\ CanForceWin(with_move(board, m, npc_symbol), npc_symbol, player_symbol)
\* the greatest score of a candidate cell of b when the candidates are scored
\* by minimax without pruning, the opposing symbol moving next (the minimizing
\* layer), a node that is `depth` plies deep scoring 10 - depth for a line of
\* npc, depth - 10 for a line of pl and 0 for a full board
BestPlainScore(b, npc, pl, depth) ==
  SetMax({PlainMinimax(b, npc, pl, depth, npc, m, available_moves(b)) : m \in available_moves(b)})

\* C18 as stated: hard_move scores each candidate cell by minimax as the
\* minimizing layer at depth 1 with the widest alpha and beta, so that a
\* candidate that completes a line of the strategy's symbol scores 10 - 1 = 9.
CandidatesScoredAtDepthOne ==
  choice # None =>
    /\ score = BestPlainScore(board, npc_symbol, player_symbol, 1)
    /\ WinningCells(board, npc_symbol) # {} => score = 9

\* C18 amended: hard_move scores each candidate cell by minimax as the
\* minimizing layer at depth 0 with the widest alpha and beta, a terminal
\* node scoring 10 - depth for a line of the strategy's symbol, depth - 10
\* for a line of the opposing symbol and 0 for a full board, so that a
\* candidate that completes a line of the strategy's symbol scores 10.
CandidatesScoredAtDepthZero ==
  choice # None =>
    /\ score = BestPlainScore(board, npc_symbol, player_symbol, 0)
    /\ WinningCells(board, npc_symbol) # {} => score = 10

\* C18 witness: hard_move has returned with best_score 10 on a board on
\* which a cell completes its line.
ImmediateWinScored ==
  /\ choice # None
  /\ score = 10
  /\ WinningCells(board, npc_symbol) # {}
  /\ Count(board, " ") >= 2
(***************************************************************************)
(* Properties of threads that share an instance                            *)
(***************************************************************************)

\* the threads that are inside the with block of make_move
InsideLock == {t \in Callers : callers[t].pc \in {"check", "write", "return"}}

\* the make_move calls on the cell m that have not returned or raised yet
InFlight(m) == {t \in Callers : callers[t].pc # "idle" /\ <<callers[t].row, callers[t].col>> = m}

\* C19: for every interleaving of make_move calls of external threads the
\* emptiness check and the write of a cell are atomic: of the calls on the
\* same empty cell exactly one writes it and returns True and all others
\* raise the occupied-cell error, a written cell is never written again, and
\* the lock is free after every call, returned or raised.
LockMakesMoveAtomic ==
  /\ Cardinality(InsideLock) <= 1
  /\ lock = (IF InsideLock = {} THEN NoThread ELSE CHOOSE t \in InsideLock : TRUE)
  /\ \A m \in Cells :
       /\ tally[m].writes <= 1
       /\ tally[m].returned <= tally[m].writes
       /\ (board[m[1]][m[2]] # " ") <=> (tally[m].writes = 1)
       /\ tally[m].taken > 0 => tally[m].writes = 1
       /\ tally[m].called = tally[m].returned + tally[m].taken + Cardinality(InFlight(m))
       /\ (InFlight(m) = {} /\ tally[m].called > 0) =>
            /\ tally[m].returned = 1
            /\ tally[m].taken = tally[m].called - 1

\* C19 witness: every thread has made its calls, three of them on the same
\* cell: one returned True, two raised, the lock is free.
OneCallWon ==
  /\ \A t \in Callers : callers[t].pc = "idle" /\ callers[t].calls = MaxCalls
  /\ \E m \in Cells : tally[m].called >= 3 /\ tally[m].returned = 1 /\ tally[m].taken >= 2
  /\ lock = NoThread
\* the three rows of b in the order draw_board prints them
Snapshot(b) == <<b[0], b[1], b[2]>>

\* C20: a board that another thread reads under the lock (draw_board) while
\* a strategy computation runs on the same instance equals the board before
\* the strategy call or the board after the committed move; it never holds
\* a hypothetical placement.
ReaderSeesOnlyRealBoards ==
  (reader.pc = "idle" /\ Len(reader.seen) = 3) =>
    \/ reader.seen = Snapshot(search.start)
    \/ /\ search.move # None
       /\ reader.seen = Snapshot(with_move(search.start, search.move, npc_symbol))

====
